---- MODULE Spec2Model ----
(***************************************************************************)
(* Password-reset flow of KVSHS-APP.                                       *)
(*                                                                         *)
(*   src/lib/users.ts      data-access layer over the tables AppUsers and  *)
(*                         password_reset_otps                             *)
(*   src/unnamed/part_000  ForgotPassword: the three-step reset form       *)
(*                                                                         *)
(* Every supabase / emailjs request is one atomic step taken at the        *)
(* instant `now`; a handler is a chain of such steps, one per await, and   *)
(* other writers of the shared store may act between two of them.          *)
(* Timestamps are milliseconds since the epoch: toISOString() keeps the    *)
(* millisecond, and the store compares timestamps, not text.               *)
(***************************************************************************)
EXTENDS Integers, Sequences, FiniteSets, TLC

\* ------------------------------------------------------------------ bounds
MaxOtps  == 2          \* OTP rows ever inserted
MaxTicks == 2          \* clock readings after the first

\* ------------------------------------------------------- program constants
OtpLifetimeMs == 10 * 60 * 1000      \* users.ts:84
TickMs        == 10 * 60 * 1000      \* granularity of the modelled clock

Emails    == {"a@x.com", "missing@x.com"}   \* addresses typed into the form
Registrable == {"a@x.com"}                  \* addresses that ever register
Passwords == {"pw1", "pw2"}
FirstPasswords == {"pw1"}                   \* passwords chosen at registration
NewPasswords   == {"pw2"}                   \* passwords typed as the new password
Names     == {"n"}
Statuses  == {"Pending", "Approved"}
\* generateOtp yields the decimal text of an integer in OtpLow..OtpHigh
OtpLow    == 100000                  \* part_000:35
OtpHigh   == 999999                  \* part_000:35
OtpSamples == {OtpLow, OtpHigh}      \* the draws of Math.random() explored
Empty     == ""                      \* '' of an untouched form field

Null      == [null |-> TRUE]
NoError   == [code |-> "none", message |-> <<>>, isError |-> FALSE]

\* ------------------------------------------------------------ error values
\* A message is the sequence of its words; includes() is contiguous
\* sub-sequence search on it.
RECURSIVE IncludesAt(_, _, _)
IncludesAt(msg, needle, i) ==
    IF i + Len(needle) - 1 > Len(msg) THEN FALSE
    ELSE IF SubSeq(msg, i, i + Len(needle) - 1) = needle THEN TRUE
    ELSE IncludesAt(msg, needle, i + 1)

includes(msg, needle) == IncludesAt(msg, needle, 1)

\* Errors the backing store can answer with (PostgrestError); isError tells
\* whether the value is an instance of Error in the installed client build.
PermissionDenied(inst) ==
    [code |-> "42501", message |-> <<"permission", "denied", "for", "table">>,
     isError |-> inst]
RlsViolation(inst) ==
    [code |-> "42501",
     message |-> <<"new", "row", "violates", "row-level", "security", "policy">>,
     isError |-> inst]
UndefinedTable(inst) ==
    [code |-> "42P01", message |-> <<"relation", "does", "not", "exist">>,
     isError |-> inst]
NetworkFailure(inst) ==
    [code |-> "", message |-> <<"fetch", "failed">>, isError |-> inst]

StoreErrors ==
    UNION {{PermissionDenied(i), RlsViolation(i), UndefinedTable(i), NetworkFailure(i)} :
           i \in BOOLEAN}

\* emailjs rejects with an EmailJSResponseStatus {status, text}, which is no
\* Error; a failing fetch underneath rejects with an Error.
EmailErrors == {[code |-> "412", message |-> <<"smtp", "failure">>, isError |-> FALSE],
                [code |-> "", message |-> <<"Network", "Error">>, isError |-> TRUE]}

NewError(msg) == [code |-> "", message |-> msg, isError |-> TRUE]

Returned(v) == [threw |-> FALSE, value |-> v, error |-> NoError]
Threw(e)    == [threw |-> TRUE, value |-> Null, error |-> e]

VARIABLES
    AppUsers,              \* table AppUsers: set of rows
    password_reset_otps,   \* table password_reset_otps: set of rows
    now,                   \* the clock, ms
    nextId,                \* next id the store hands out
    formData, isLoading, step,     \* useState cells of ForgotPassword
    pc,                    \* the await the running handler is suspended at
    call,                  \* values the running handler closed over
    trail,                 \* what the current / last handler run did
    notice,                \* the Swal modal on display
    outbox,                \* emailjs.send requests issued
    fault,                 \* what the store / emailjs answered to the last request
    peer                   \* a verifyPasswordResetOtp call of another flow instance
\* call, trail and fault keep the record of the last handler run until the user
\* next edits the form.

store == <<AppUsers, password_reset_otps, nextId>>
form  == <<formData, isLoading, step>>
run   == <<pc, call, trail, notice, fault>>
vars  == <<AppUsers, password_reset_otps, now, nextId, formData, isLoading, step,
           pc, call, trail, notice, outbox, fault, peer>>

\* ------------------------------------------------------- data-access layer
\* Column defaults and key constraints of the two tables (database schema).
OtpColumnDefaults(id, t) == [id |-> id, created_at |-> t, used |-> FALSE]
UniqueViolation == [code |-> "23505", message |-> <<"duplicate", "key">>, isError |-> FALSE]

\* .single(): the one row of the result, else error PGRST116
NoRows == [code |-> "PGRST116", message |-> <<"no", "rows">>, isError |-> FALSE]
single(rows) ==
    IF Cardinality(rows) = 1
    THEN [data |-> CHOOSE r \in rows : TRUE, error |-> NoError]
    ELSE [data |-> Null, error |-> NoRows]

\* addUser: insert with status forced to 'Pending'.  -> [res, users]
addUser(users, user, err) ==
    LET row == [full_name |-> user.full_name, email |-> user.email,
                password |-> user.password, status |-> "Pending"]
        error == IF err # NoError THEN err
                 ELSE IF \E u \in users : u.email = user.email THEN UniqueViolation
                 ELSE NoError
    IN  IF error # NoError THEN [res |-> Threw(error), users |-> users]
        ELSE [res |-> Returned(row), users |-> users \cup {row}]

\* (no case for PGRST116: every error is thrown)
getUserByEmail_throwsOnNoRows(users, email, err) ==
    LET q == IF err # NoError THEN [data |-> Null, error |-> err]
             ELSE single({u \in users : u.email = email})
    IN  IF q.error # NoError THEN Threw(q.error) ELSE Returned(q.data)

\* getUserByEmail: the row, null when error.code === 'PGRST116', else throws
getUserByEmail(users, email, err) ==
    LET q == IF err # NoError THEN [data |-> Null, error |-> err]
             ELSE single({u \in users : u.email = email})
    IN  IF q.error # NoError
        THEN IF q.error.code = "PGRST116" THEN Returned(Null) ELSE Threw(q.error)
        ELSE Returned(q.data)

\* updateUserStatus: update({status}).eq('email', email).  -> [res, users]
updateUserStatus(users, email, status, err) ==
    IF err # NoError THEN [res |-> Threw(err), users |-> users]
    ELSE [res |-> Returned(Null),
          users |-> {IF u.email = email THEN [u EXCEPT !.status = status] ELSE u :
                     u \in users}]

\* (the update without status: 'Pending')
resetPasswordUpdate_keepStatus(users, email, newPassword, err) ==
    IF err # NoError THEN [res |-> Threw(err), users |-> users]
    ELSE [res |-> Returned(Null),
          users |-> {IF u.email = email THEN [u EXCEPT !.password = newPassword] ELSE u :
                     u \in users}]

\* resetPassword, second request: update({password, status:'Pending'}).eq('email')
resetPasswordUpdate(users, email, newPassword, err) ==
    IF err # NoError THEN [res |-> Threw(err), users |-> users]
    ELSE [res |-> Returned(Null),
          users |-> {IF u.email = email
                     THEN [u EXCEPT !.password = newPassword, !.status = "Pending"]
                     ELSE u : u \in users}]

UserNotFound == NewError(<<"User", "not", "found">>)

\* (the null check left out)
resetPasswordLookup_unchecked(users, email, err) == getUserByEmail(users, email, err)

\* resetPassword, first request: getUserByEmail, throw 'User not found' on null
resetPasswordLookup(users, email, err) ==
    LET user == getUserByEmail(users, email, err)
    IN  IF user.threw THEN user
        ELSE IF user.value = Null THEN Threw(UserNotFound)
        ELSE user

CreateOtpPermissionError ==
    NewError(<<"Database", "permission", "error.", "Please", "disable", "RLS", "for",
               "password_reset_otps", "table", "or", "check", "your", "Supabase",
               "policies.">>)

\* (the lifetime added in seconds: Date.now() + 10 * 60)
createPasswordResetOtp_seconds(otps, email, otp, t, id, err) ==
    LET row == [email |-> email, otp |-> otp, expires_at |-> t + 10 * 60]
                  @@ OtpColumnDefaults(id, t)
    IN  IF err # NoError
        THEN IF err.code = "42501" \/ includes(err.message, <<"permission">>)
             THEN [res |-> Threw(CreateOtpPermissionError), otps |-> otps]
             ELSE [res |-> Threw(err), otps |-> otps]
        ELSE [res |-> Returned(row), otps |-> otps \cup {row}]

\* createPasswordResetOtp(email, otp) issued at time t, the store handing out id.
\* -> [res, otps]
createPasswordResetOtp(otps, email, otp, t, id, err) ==
    LET row == [email |-> email, otp |-> otp, expires_at |-> t + OtpLifetimeMs]
                  @@ OtpColumnDefaults(id, t)
    IN  IF err # NoError
        THEN IF err.code = "42501" \/ includes(err.message, <<"permission">>)
             THEN [res |-> Threw(CreateOtpPermissionError), otps |-> otps]
             ELSE [res |-> Threw(err), otps |-> otps]
        ELSE [res |-> Returned(row), otps |-> otps \cup {row}]

\* (the select without .gt('expires_at', now))
verifySelectRows_anyExpiry(otps, email, otp, t) ==
    LET match == {r \in otps : /\ r.email = email
                               /\ r.otp = otp
                               /\ r.used = FALSE}
    IN  {r \in match : \A s \in match : s.created_at <= r.created_at}

\* (the select without .eq('used', false))
verifySelectRows_anyUsed(otps, email, otp, t) ==
    LET match == {r \in otps : /\ r.email = email
                               /\ r.otp = otp
                               /\ r.expires_at > t}
    IN  {r \in match : \A s \in match : s.created_at <= r.created_at}

\* (order('created_at', { ascending: true }))
verifySelectRows_oldest(otps, email, otp, t) ==
    LET match == {r \in otps : /\ r.email = email
                               /\ r.otp = otp
                               /\ r.used = FALSE
                               /\ r.expires_at > t}
    IN  {r \in match : \A s \in match : s.created_at >= r.created_at}

\* verifyPasswordResetOtp, first request: the rows
\*   .eq(email).eq(otp).eq(used,false).gt(expires_at, now)
\*   .order(created_at desc).limit(1)
\* Rows of equal created_at come in an order the store chooses.
verifySelectRows(otps, email, otp, t) ==
    LET match == {r \in otps : /\ r.email = email
                               /\ r.otp = otp
                               /\ r.used = FALSE
                               /\ r.expires_at > t}
    IN  {r \in match : \A s \in match : s.created_at <= r.created_at}

\* The outcomes of the first request: the set of [found, id] the store may give
\* (`if (error || !data) return false`).
verifySelect(otps, email, otp, t, err) ==
    LET rows == verifySelectRows(otps, email, otp, t)
    IN  IF err # NoError \/ rows = {} THEN {[found |-> FALSE, id |-> 0]}
        ELSE {[found |-> TRUE, id |-> single({r}).data.id] : r \in rows}

\* (the update writing nothing)
verifyUpdate_notMarked(otps, id, err) ==
    IF err # NoError THEN [res |-> Threw(err), otps |-> otps]
    ELSE [res |-> Returned(TRUE), otps |-> otps]

\* (updateError ignored: true is returned whatever the update did)
verifyUpdate_swallowed(otps, id, err) ==
    IF err # NoError THEN [res |-> Returned(TRUE), otps |-> otps]
    ELSE [res |-> Returned(TRUE),
          otps |-> {IF r.id = id THEN [r EXCEPT !.used = TRUE] ELSE r : r \in otps}]

\* verifyPasswordResetOtp, second request: update({used:true}).eq('id', id)
verifyUpdate(otps, id, err) ==
    IF err # NoError THEN [res |-> Threw(err), otps |-> otps]
    ELSE [res |-> Returned(TRUE),
          otps |-> {IF r.id = id THEN [r EXCEPT !.used = TRUE] ELSE r : r \in otps}]

\* (delete().lte('expires_at', now))
cleanupExpiredOtps_lte(otps, t, err) ==
    IF err # NoError THEN [res |-> Threw(err), otps |-> otps]
    ELSE [res |-> Returned(Null), otps |-> {r \in otps : ~(r.expires_at <= t)}]

\* (used rows deleted along with the expired ones)
cleanupExpiredOtps_orUsed(otps, t, err) ==
    IF err # NoError THEN [res |-> Threw(err), otps |-> otps]
    ELSE [res |-> Returned(Null), otps |-> {r \in otps : ~(r.expires_at < t \/ r.used)}]

\* cleanupExpiredOtps: delete().lt('expires_at', now)
cleanupExpiredOtps(otps, t, err) ==
    IF err # NoError THEN [res |-> Threw(err), otps |-> otps]
    ELSE [res |-> Returned(Null), otps |-> {r \in otps : ~(r.expires_at < t)}]

\* ------------------------------------------------- ForgotPassword (part_000)
EmptyForm == [email |-> Empty, otp |-> Empty, newPassword |-> Empty,
              confirmPassword |-> Empty]
NoCall    == [handler |-> "none", email |-> Empty, otp |-> Empty,
              newPassword |-> Empty, id |-> 0]
NoNotice  == [icon |-> "none", title |-> "none", text |-> <<>>]

Swal(icon, title, text) == [icon |-> icon, title |-> title, text |-> text]

\* generateOtp: Math.floor(100000 + Math.random() * 900000).toString()
generateOtp == {ToString(n) : n \in OtpSamples}

\* values a user can type into an input
FieldValues(name) ==
    CASE name = "email"       -> Emails \cup {Empty}
      [] name = "otp"         -> generateOtp \cup {Empty}
      [] name = "newPassword" -> NewPasswords \cup {Empty}
      [] OTHER                -> Passwords \cup {Empty}

\* (the email input rendered in every step)
Rendered_withEmail(s) ==
    CASE s = "email" -> {"email"}
      [] s = "otp"   -> {"email", "otp"}
      [] OTHER       -> {"email", "newPassword", "confirmPassword"}

\* the inputs the form renders in each step (JSX, lines 221-342)
Rendered(s) ==
    CASE s = "email" -> {"email"}
      [] s = "otp"   -> {"otp"}
      [] OTHER       -> {"newPassword", "confirmPassword"}

FailedToSendOtp == <<"Failed", "to", "send", "OTP.", "Please", "try", "again.">>
PermissionMessage ==
    <<"Database", "permission", "error.", "Please", "contact", "administrator", "to",
      "disable", "RLS", "for", "password_reset_otps", "table.">>
TableMessage ==
    <<"Database", "table", "not", "found.", "Please", "contact", "administrator", "to",
      "create", "password_reset_otps", "table.">>

\* the catch block of handleSendOtp, lines 104-114
SendOtpErrorMessage(error) ==
    IF error.isError
    THEN IF includes(error.message, <<"permission">>) \/ includes(error.message, <<"RLS">>)
         THEN PermissionMessage
         ELSE IF includes(error.message, <<"table", "does", "not", "exist">>)
         THEN TableMessage
         ELSE <<"Failed", "to", "send", "OTP:">> \o error.message
    ELSE FailedToSendOtp

NoticeMissingEmail == Swal("error", "Missing Email", <<"Please enter your email address.">>)
NoticeUserNotFound == Swal("error", "User Not Found",
                           <<"No account found with this email address.">>)
NoticeOtpSent      == Swal("success", "OTP Sent", <<"Please check your email for the OTP.">>)
NoticeMissingOtp   == Swal("error", "Missing OTP", <<"Please enter the OTP.">>)
NoticeInvalidOtp   == Swal("error", "Invalid OTP",
                           <<"The OTP you entered is incorrect or has expired.">>)
NoticeVerifyFailed == Swal("error", "Error", <<"Failed to verify OTP. Please try again.">>)
NoticeMissingFields == Swal("error", "Missing Fields", <<"Please fill in all fields.">>)
NoticeMismatch     == Swal("error", "Password Mismatch",
                           <<"New password and confirm password do not match.">>)
NoticeResetDone    == Swal("success", "Password Reset Successful",
                           <<"Your password has been reset. Please wait for admin approval before logging in.">>)
NoticeResetFailed  == Swal("error", "Error", <<"Failed to reset password. Please try again.">>)

\* what the store may answer: to the requests of handleSendOtp, whose catch block
\* inspects the error, and to the other requests, whose callers do not
Outcomes    == {NoError} \cup StoreErrors
EnvOutcomes == {NoError, NetworkFailure(TRUE)}

\* (setStep reached on every path)
handleSendOtp_then_always(res, s) == "otp"
handleVerifyOtp_then_always(res, s) == "password"
\* (the form reset left out)
handleResetPassword_then_keepsForm(res, fd, s) ==
    IF res.threw THEN [formData |-> fd, step |-> s]
    ELSE [formData |-> fd, step |-> "email"]

\* what the handlers do once their awaited call has settled
\* handleSendOtp, lines 94-95: setStep('otp') unless sendOtpEmail threw
handleSendOtp_then(res, s) == IF res.threw THEN s ELSE "otp"

\* handleVerifyOtp, lines 139-149: setStep('password') only on isValid
handleVerifyOtp_then(res, s) ==
    IF res.threw THEN s ELSE IF res.value = TRUE THEN "password" ELSE s

\* handleResetPassword, lines 183-196: clear the form and return to 'email'
handleResetPassword_then(res, fd, s) ==
    IF res.threw THEN [formData |-> fd, step |-> s]
    ELSE [formData |-> EmptyForm, step |-> "email"]

\* the other instance's call: the request it is suspended at, the id its select
\* returned, its result
NoPeer == [pc |-> "idle", id |-> 0, res |-> Null]

Init ==
    /\ AppUsers = {}
    /\ password_reset_otps = {}
    /\ now = 0
    /\ nextId = 1
    /\ formData = EmptyForm
    /\ isLoading = FALSE
    /\ step = "email"
    /\ pc = "idle"
    /\ call = NoCall
    /\ trail = <<>>
    /\ notice = NoNotice
    /\ outbox = {}
    /\ fault = NoError
    /\ peer = NoPeer

\* A Swal modal covers the form: the user closes it before typing or submitting.
Dismiss == notice' = NoNotice

\* (no finally block: the flag is left as it is)
Finally_leavesBusy == pc' = "idle" /\ UNCHANGED isLoading

\* the finally block of every handler
Finally == isLoading' = FALSE /\ pc' = "idle"

\* the first await of a handler run
Begin(handler, first) ==
    /\ isLoading' = TRUE
    /\ pc' = first
    /\ trail' = <<handler>>
    /\ fault' = NoError
    /\ Dismiss

\* (setIsLoading(true) moved above the checks)
Reject_afterBusy(handler, swal) ==
    /\ notice' = swal
    /\ trail' = <<handler, "invalid">>
    /\ isLoading' = TRUE
    /\ UNCHANGED <<pc, call, fault>>

\* a submission rejected by the local checks
Reject(handler, swal) ==
    /\ notice' = swal
    /\ trail' = <<handler, "invalid">>
    /\ UNCHANGED <<isLoading, pc, call, fault>>

handleInputChange ==
    \E name \in Rendered(step) : \E value \in FieldValues(name) :
        /\ formData' = [formData EXCEPT ![name] = value]
        /\ Dismiss
        /\ IF pc = "idle"
           THEN call' = NoCall /\ trail' = <<>> /\ fault' = NoError
           ELSE UNCHANGED <<call, trail, fault>>
        /\ UNCHANGED <<store, now, isLoading, step, pc, outbox, peer>>

\* handleSendOtp up to its first await, lines 68-82
handleSendOtp ==
    /\ step = "email" /\ ~isLoading
    /\ nextId <= MaxOtps /\ now < MaxTicks * TickMs     \* the explored horizon
    /\ IF formData.email = Empty
       THEN Reject("handleSendOtp", NoticeMissingEmail)
       ELSE /\ Begin("handleSendOtp", "send:getUserByEmail")
            /\ call' = [NoCall EXCEPT !.handler = "handleSendOtp", !.email = formData.email]
    /\ UNCHANGED <<store, now, formData, step, outbox, peer>>

\* await getUserByEmail(formData.email), lines 82-92
handleSendOtp_getUserByEmail ==
    /\ pc = "send:getUserByEmail"
    /\ \E err \in Outcomes :
         LET user == getUserByEmail(AppUsers, call.email, err)
         IN  /\ fault' = err
             /\ IF user.threw
                THEN /\ notice' = Swal("error", "Error", SendOtpErrorMessage(user.error))
                     /\ trail' = Append(trail, "getUserByEmail:threw")
                     /\ Finally /\ UNCHANGED call
                ELSE IF user.value = Null
                THEN /\ notice' = NoticeUserNotFound
                     /\ trail' = Append(trail, "getUserByEmail:null")
                     /\ Finally /\ UNCHANGED call
                ELSE /\ \E otp \in generateOtp : call' = [call EXCEPT !.otp = otp]
                     /\ pc' = "send:createPasswordResetOtp"
                     /\ trail' = Append(trail, "getUserByEmail:found")
                     /\ UNCHANGED <<isLoading, notice>>
    /\ UNCHANGED <<store, now, formData, step, outbox, peer>>

\* await createPasswordResetOtp(formData.email, otp), line 93
handleSendOtp_createPasswordResetOtp ==
    /\ pc = "send:createPasswordResetOtp"
    /\ \E err \in Outcomes :
         LET c == createPasswordResetOtp(password_reset_otps, call.email, call.otp,
                                         now, nextId, err)
         IN  /\ fault' = err
             /\ password_reset_otps' = c.otps
             /\ IF c.res.threw
                THEN /\ notice' = Swal("error", "Error", SendOtpErrorMessage(c.res.error))
                     /\ trail' = Append(trail, "createPasswordResetOtp:threw")
                     /\ Finally
                     /\ UNCHANGED <<nextId, call>>
                ELSE /\ nextId' = nextId + 1
                     /\ call' = [call EXCEPT !.id = c.res.value.id]
                     /\ pc' = "send:sendOtpEmail"
                     /\ trail' = Append(trail, "createPasswordResetOtp:ok")
                     /\ UNCHANGED <<isLoading, notice>>
    /\ UNCHANGED <<AppUsers, now, formData, step, outbox, peer>>

\* sendOtpEmail: emailjs.send({to_email, otp}); a rejection is rethrown
sendOtpEmail(box, email, otp, err) ==
    [res |-> IF err # NoError THEN Threw(err) ELSE Returned(Null),
     box |-> box \cup {[to_email |-> email, otp |-> otp]}]

\* await sendOtpEmail(formData.email, otp); setStep('otp'), lines 94-100
handleSendOtp_sendOtpEmail ==
    /\ pc = "send:sendOtpEmail"
    /\ \E err \in {NoError} \cup EmailErrors :
         LET m == sendOtpEmail(outbox, call.email, call.otp, err)
         IN  /\ fault' = err
             /\ outbox' = m.box
             /\ step' = handleSendOtp_then(m.res, step)
             /\ IF m.res.threw
                THEN /\ notice' = Swal("error", "Error", SendOtpErrorMessage(m.res.error))
                     /\ trail' = Append(trail, "sendOtpEmail:threw")
                ELSE /\ notice' = NoticeOtpSent
                     /\ trail' = Append(trail, "sendOtpEmail:ok")
             /\ Finally
    /\ UNCHANGED <<store, now, formData, call, peer>>

\* handleVerifyOtp up to its first await, lines 126-139
handleVerifyOtp ==
    /\ step = "otp" /\ ~isLoading
    /\ IF formData.otp = Empty
       THEN Reject("handleVerifyOtp", NoticeMissingOtp)
       ELSE /\ Begin("handleVerifyOtp", "verify:select")
            /\ call' = [NoCall EXCEPT !.handler = "handleVerifyOtp",
                                      !.email = formData.email, !.otp = formData.otp]
    /\ UNCHANGED <<store, now, formData, step, outbox, peer>>

\* verifyPasswordResetOtp, the select request; `return false` ends the handler
handleVerifyOtp_select ==
    /\ pc = "verify:select"
    /\ \E err \in EnvOutcomes :
       \E sel \in verifySelect(password_reset_otps, call.email, call.otp, now, err) :
         /\ fault' = err
         /\ IF sel.found
            THEN /\ call' = [call EXCEPT !.id = sel.id]
                 /\ pc' = "verify:update"
                 /\ trail' = Append(trail, "select:found")
                 /\ UNCHANGED <<isLoading, notice, step>>
            ELSE /\ step' = handleVerifyOtp_then(Returned(FALSE), step)
                 /\ notice' = NoticeInvalidOtp
                 /\ trail' = Append(trail, "verify:false")
                 /\ Finally /\ UNCHANGED call
    /\ UNCHANGED <<store, now, formData, outbox, peer>>

\* verifyPasswordResetOtp, the update request; setStep('password') on true
handleVerifyOtp_update ==
    /\ pc = "verify:update"
    /\ \E err \in EnvOutcomes :
         LET u == verifyUpdate(password_reset_otps, call.id, err)
         IN  /\ fault' = err
             /\ password_reset_otps' = u.otps
             /\ step' = handleVerifyOtp_then(u.res, step)
             /\ IF u.res.threw
                THEN /\ notice' = NoticeVerifyFailed
                     /\ trail' = Append(trail, "verify:threw")
                ELSE /\ trail' = Append(trail, "verify:true")
                     /\ UNCHANGED notice
    /\ Finally
    /\ UNCHANGED <<AppUsers, nextId, now, formData, call, outbox, peer>>

\* handleResetPassword up to its first await, lines 161-183
handleResetPassword ==
    /\ step = "password" /\ ~isLoading
    /\ IF formData.newPassword = Empty \/ formData.confirmPassword = Empty
       THEN Reject("handleResetPassword", NoticeMissingFields)
       ELSE IF formData.newPassword # formData.confirmPassword
       THEN Reject("handleResetPassword", NoticeMismatch)
       ELSE /\ Begin("handleResetPassword", "reset:getUserByEmail")
            /\ call' = [NoCall EXCEPT !.handler = "handleResetPassword",
                                      !.email = formData.email,
                                      !.newPassword = formData.newPassword]
    /\ UNCHANGED <<store, now, formData, step, outbox, peer>>

\* resetPassword, the lookup request
handleResetPassword_getUserByEmail ==
    /\ pc = "reset:getUserByEmail"
    /\ \E err \in EnvOutcomes :
         LET user == resetPasswordLookup(AppUsers, call.email, err)
             then == handleResetPassword_then(user, formData, step)
         IN  /\ fault' = err
             /\ IF user.threw
                THEN /\ notice' = NoticeResetFailed
                     /\ trail' = Append(trail, "resetPassword:threw")
                     /\ formData' = then.formData
                     /\ step' = then.step
                     /\ Finally
                ELSE /\ pc' = "reset:update"
                     /\ trail' = Append(trail, "getUserByEmail:found")
                     /\ UNCHANGED <<isLoading, notice, formData, step>>
    /\ UNCHANGED <<store, now, call, outbox, peer>>

\* resetPassword, the update request; the form is cleared on success
handleResetPassword_update ==
    /\ pc = "reset:update"
    /\ \E err \in EnvOutcomes :
         LET u == resetPasswordUpdate(AppUsers, call.email, call.newPassword, err)
             then == handleResetPassword_then(u.res, formData, step)
         IN  /\ fault' = err
             /\ AppUsers' = u.users
             /\ formData' = then.formData
             /\ step' = then.step
             /\ IF u.res.threw
                THEN /\ notice' = NoticeResetFailed
                     /\ trail' = Append(trail, "resetPassword:threw")
                ELSE /\ notice' = NoticeResetDone
                     /\ trail' = Append(trail, "resetPassword:ok")
    /\ Finally
    /\ UNCHANGED <<password_reset_otps, nextId, now, call, outbox, peer>>

\* ------------------------------------------- other callers of the data layer
Tick ==
    /\ now < MaxTicks * TickMs
    /\ now' = now + TickMs
    /\ UNCHANGED <<store, form, run, outbox, peer>>

\* registration
AddUser ==
    \E name \in Names, email \in Registrable, password \in FirstPasswords, err \in EnvOutcomes :
        /\ AppUsers' = addUser(AppUsers, [full_name |-> name, email |-> email,
                                          password |-> password], err).users
        /\ UNCHANGED <<password_reset_otps, nextId, now, form, run, outbox, peer>>

\* the administrator approving or suspending an account
UpdateUserStatusWith(email, status, err) ==
    /\ AppUsers' = updateUserStatus(AppUsers, email, status, err).users
    /\ UNCHANGED <<password_reset_otps, nextId, now, form, run, outbox, peer>>

UpdateUserStatus ==
    \E email \in Emails, status \in Statuses, err \in EnvOutcomes :
        UpdateUserStatusWith(email, status, err)

\* the external scheduler
CleanupExpiredOtpsWith(err) ==
    /\ password_reset_otps' = cleanupExpiredOtps(password_reset_otps, now, err).otps
    /\ UNCHANGED <<AppUsers, nextId, now, form, run, outbox, peer>>

CleanupExpiredOtps == \E err \in EnvOutcomes : CleanupExpiredOtpsWith(err)

Next ==
    \/ handleInputChange
    \/ handleSendOtp
    \/ handleSendOtp_getUserByEmail
    \/ handleSendOtp_createPasswordResetOtp
    \/ handleSendOtp_sendOtpEmail
    \/ handleVerifyOtp
    \/ handleVerifyOtp_select
    \/ handleVerifyOtp_update
    \/ handleResetPassword
    \/ handleResetPassword_getUserByEmail
    \/ handleResetPassword_update
    \/ Tick
    \/ AddUser
    \/ UpdateUserStatus
    \/ CleanupExpiredOtps

Spec == Init /\ [][Next]_vars

\* ------------------------------------- the data layer called directly
\* Any page of the application may call the functions of users.ts with
\* arguments of its choosing.  pc is the request the call is suspended at,
\* call its arguments, trail its name followed by its result.
HalfTick ==
    /\ now < MaxTicks * TickMs
    /\ now' = now + TickMs \div 2
    /\ UNCHANGED <<store, form, run, outbox, peer>>

\* resetPassword(email, newPassword): the lookup, lines 48-53
Call_resetPasswordWith(email, newPassword, err) ==
    LET user == resetPasswordLookup(AppUsers, email, err)
    IN  /\ pc = "idle"
        /\ call' = [NoCall EXCEPT !.handler = "resetPassword", !.email = email,
                                  !.newPassword = newPassword]
        /\ fault' = err
        /\ IF user.threw
           THEN trail' = <<"resetPassword", user>> /\ UNCHANGED pc
           ELSE trail' = <<"resetPassword">> /\ pc' = "resetPassword:update"
        /\ UNCHANGED <<store, now, form, notice, outbox, peer>>

Call_resetPassword ==
    \E email \in Emails, newPassword \in NewPasswords, err \in EnvOutcomes :
        Call_resetPasswordWith(email, newPassword, err)

\* resetPassword: the update, lines 55-64
Step_resetPassword_update ==
    /\ pc = "resetPassword:update"
    /\ \E err \in EnvOutcomes :
         LET u == resetPasswordUpdate(AppUsers, call.email, call.newPassword, err)
         IN  /\ AppUsers' = u.users
             /\ fault' = err
             /\ trail' = Append(trail, u.res)
             /\ pc' = "idle"
    /\ UNCHANGED <<password_reset_otps, nextId, now, form, call, notice, outbox, peer>>

\* createPasswordResetOtp(email, otp), lines 76-105
Call_createPasswordResetOtp ==
    /\ pc = "idle"
    /\ nextId <= MaxOtps
    /\ \E email \in Registrable, otp \in generateOtp, err \in EnvOutcomes :
         LET c == createPasswordResetOtp(password_reset_otps, email, otp, now, nextId, err)
         IN  /\ password_reset_otps' = c.otps
             /\ nextId' = IF c.res.threw THEN nextId ELSE nextId + 1
             /\ call' = [NoCall EXCEPT !.handler = "createPasswordResetOtp",
                                       !.email = email, !.otp = otp]
             /\ fault' = err
             /\ trail' = <<"createPasswordResetOtp", c.res>>
    /\ UNCHANGED <<AppUsers, now, form, pc, notice, outbox, peer>>

\* verifyPasswordResetOtp(email, otp): the select, lines 107-119
Call_verifyPasswordResetOtp ==
    /\ pc = "idle"
    /\ \E email \in Registrable, otp \in generateOtp, err \in EnvOutcomes :
       \E sel \in verifySelect(password_reset_otps, email, otp, now, err) :
         /\ call' = [NoCall EXCEPT !.handler = "verifyPasswordResetOtp",
                                   !.email = email, !.otp = otp, !.id = sel.id]
         /\ fault' = err
         /\ IF sel.found
            THEN trail' = <<"verifyPasswordResetOtp">>
                 /\ pc' = "verifyPasswordResetOtp:update"
            ELSE trail' = <<"verifyPasswordResetOtp", Returned(FALSE)>> /\ UNCHANGED pc
    /\ UNCHANGED <<store, now, form, notice, outbox, peer>>

\* verifyPasswordResetOtp: the update, lines 121-129
Step_verifyPasswordResetOtp_update ==
    /\ pc = "verifyPasswordResetOtp:update"
    /\ \E err \in EnvOutcomes :
         LET u == verifyUpdate(password_reset_otps, call.id, err)
         IN  /\ password_reset_otps' = u.otps
             /\ fault' = err
             /\ trail' = Append(trail, u.res)
             /\ pc' = "idle"
    /\ UNCHANGED <<AppUsers, nextId, now, form, call, notice, outbox, peer>>

NextApi ==
    \/ Call_resetPassword
    \/ Step_resetPassword_update
    \/ Call_createPasswordResetOtp
    \/ Call_verifyPasswordResetOtp
    \/ Step_verifyPasswordResetOtp_update
    \/ HalfTick
    \/ AddUser
    \/ CleanupExpiredOtps

SpecApi == Init /\ [][NextApi]_vars

\* ------------------------------------- two flow instances on one store
\* A second ForgotPassword instance (another tab, another device) verifying a
\* code against the same tables; its requests interleave with this instance's.
Peer_verifyPasswordResetOtp_select ==
    /\ peer.pc = "idle"
    /\ \E email \in Registrable, otp \in generateOtp, err \in EnvOutcomes :
       \E sel \in verifySelect(password_reset_otps, email, otp, now, err) :
         peer' = IF sel.found
                 THEN [pc |-> "verify:update", id |-> sel.id, res |-> Null]
                 ELSE [pc |-> "idle", id |-> 0, res |-> Returned(FALSE)]
    /\ UNCHANGED <<store, now, form, run, outbox>>

Peer_verifyPasswordResetOtp_update ==
    /\ peer.pc = "verify:update"
    /\ \E err \in EnvOutcomes :
         LET u == verifyUpdate(password_reset_otps, peer.id, err)
         IN  /\ password_reset_otps' = u.otps
             /\ peer' = [pc |-> "idle", id |-> peer.id, res |-> u.res]
    /\ UNCHANGED <<AppUsers, nextId, now, form, run, outbox>>

NextRace ==
    \/ Next
    \/ Peer_verifyPasswordResetOtp_select
    \/ Peer_verifyPasswordResetOtp_update

SpecRace == Init /\ [][NextRace]_vars


\* ------------------------------------------------------------ the claims
Last(seq) == seq[Len(seq)]

\* rows carrying an email and a code; a row that is unused and not yet expired
Carrying(otps, email, otp) == {r \in otps : r.email = email /\ r.otp = otp}
Valid(r, t) == ~r.used /\ r.expires_at > t
NotFound == [found |-> FALSE, id |-> 0]

\* the steps of one verifyPasswordResetOtp call made by handleVerifyOtp
SelectStep == pc = "verify:select" /\ pc' # "verify:select"
UpdateStep == pc = "verify:update" /\ pc' = "idle"

\* C1, as stated: for every unused, unexpired row, a call with its email and code
\* (answered by the store without error) returns true and marks that row used,
\* and a call with the same email and code made after it returns false.
C1_AcceptedExactlyOnce ==
    \A r \in password_reset_otps :
        Valid(r, now) =>
            \A sel \in verifySelect(password_reset_otps, r.email, r.otp, now, NoError) :
                LET marked == verifyUpdate(password_reset_otps, sel.id, NoError)
                IN  /\ sel.found
                    /\ marked.res = Returned(TRUE)
                    /\ [r EXCEPT !.used = TRUE] \in marked.otps
                    /\ verifySelect(marked.otps, r.email, r.otp, now, NoError) = {NotFound}

\* C1, amended: a call for an email and code that some unused, unexpired row
\* carries, answered without error, selects a newest such row, returns true and
\* marks the selected row used; a call finds nothing once no unused, unexpired
\* row carries that email and code; a row that is used is never selected, and a
\* used row never becomes unused again.
C1_Step ==
    LET carrying == Carrying(password_reset_otps, call.email, call.otp)
        valid    == {r \in carrying : Valid(r, now)}
    IN  /\ (SelectStep /\ fault' = NoError /\ valid # {}) =>
              /\ pc' = "verify:update"
              /\ \E r \in valid : /\ r.id = call'.id
                                  /\ \A q \in valid : q.created_at <= r.created_at
        /\ (SelectStep /\ valid = {}) =>
              /\ pc' = "idle" /\ Last(trail') = "verify:false" /\ step' = step
              /\ password_reset_otps' = password_reset_otps
        /\ (UpdateStep /\ fault' = NoError) =>
              /\ Last(trail') = "verify:true" /\ step' = "password"
              /\ \A r \in password_reset_otps :
                    r.id = call.id => ~r.used /\ [r EXCEPT !.used = TRUE] \in password_reset_otps'
        /\ \A r \in password_reset_otps : \A q \in password_reset_otps' :
              (q.id = r.id /\ r.used) => q.used

C1_AcceptedOncePerRow == [][C1_Step]_vars

\* a verification has just succeeded on a row, which is now used
C1_Witness ==
    /\ trail = <<"handleVerifyOtp", "select:found", "verify:true">>
    /\ step = "password"
    /\ \E r \in password_reset_otps :
          r.id = call.id /\ r.used /\ r.email = call.email /\ r.otp = call.otp


\* C2: a verification made later than the expires_at of every row carrying the
\* submitted email and code (none carrying it included) returns false, changes no
\* row, shows "Invalid OTP" and leaves the controller in step otp.
C2_Step ==
    (SelectStep /\ \A r \in Carrying(password_reset_otps, call.email, call.otp) :
                       r.expires_at < now) =>
        /\ pc' = "idle" /\ Last(trail') = "verify:false"
        /\ password_reset_otps' = password_reset_otps /\ AppUsers' = AppUsers
        /\ notice' = NoticeInvalidOtp
        /\ step = "otp" /\ step' = "otp"

C2_ExpiredAlwaysFails == [][C2_Step]_vars

\* the issued code was verified after its expiry and refused
C2_Witness ==
    /\ trail = <<"handleVerifyOtp", "verify:false">>
    /\ step = "otp" /\ notice = NoticeInvalidOtp
    /\ \E r \in Carrying(password_reset_otps, call.email, call.otp) :
          ~r.used /\ r.expires_at < now

\* C3: a verification returns false when the row carrying the submitted email
\* and code is used, although its expires_at is still in the future.
C3_Step ==
    LET carrying == Carrying(password_reset_otps, call.email, call.otp)
    IN  (/\ SelectStep
         /\ \E r \in carrying : r.used /\ r.expires_at > now
         /\ \A r \in carrying : r.used) =>
            /\ pc' = "idle" /\ Last(trail') = "verify:false"
            /\ step' = step
            /\ password_reset_otps' = password_reset_otps

C3_UsedRowFails == [][C3_Step]_vars

\* a used, unexpired code was submitted and refused
C3_Witness ==
    LET carrying == Carrying(password_reset_otps, call.email, call.otp)
    IN  /\ trail = <<"handleVerifyOtp", "verify:false">>
        /\ fault = NoError
        /\ \E r \in carrying : r.used /\ r.expires_at > now
        /\ \A r \in carrying : r.used

\* the update request of the resetPassword call made by handleResetPassword
ResetUpdateStep == pc = "reset:update" /\ pc' = "idle"

\* C4: a resetPassword the store answers without error leaves the row of that
\* email with password = newPassword and status Pending; in every step of every
\* operation a row whose password changes ends Pending, and a new row is Pending.
C4_Step ==
    /\ (ResetUpdateStep /\ fault' = NoError) =>
          /\ Last(trail') = "resetPassword:ok"
          /\ \E u \in AppUsers' : u.email = call.email
          /\ \A u \in AppUsers' :
                u.email = call.email =>
                    u.password = call.newPassword /\ u.status = "Pending"
    /\ \A u \in AppUsers : \A v \in AppUsers' :
          (v.email = u.email /\ v.password # u.password) => v.status = "Pending"
    /\ \A v \in AppUsers' :
          (\A u \in AppUsers : u.email # v.email) => v.status = "Pending"

C4_PasswordChangeForcesPending == [][C4_Step]_vars

\* a reset has just replaced the password of the account
C4_Witness ==
    /\ trail = <<"handleResetPassword", "getUserByEmail:found", "resetPassword:ok">>
    /\ step = "email"
    /\ \E u \in AppUsers :
          /\ u.email = call.email /\ u.password = call.newPassword
          /\ u.password \notin FirstPasswords /\ u.status = "Pending"


\* the steps of one handleSendOtp run
LookupStep == pc = "send:getUserByEmail" /\ pc' # "send:getUserByEmail"
CreateStep == pc = "send:createPasswordResetOtp" /\ pc' # "send:createPasswordResetOtp"
SendStep   == pc = "send:sendOtpEmail" /\ pc' = "idle"

\* C5: a reset request for an email that has an account, answered by the store
\* without error, creates exactly one new OTP row: for that email, unused,
\* expiring 10 minutes after its creation time; no other step adds a row.
C5_Step ==
    /\ (LookupStep /\ fault' = NoError /\ \E u \in AppUsers : u.email = call.email) =>
          /\ pc' = "send:createPasswordResetOtp"
          /\ password_reset_otps' = password_reset_otps
    /\ (CreateStep /\ fault' = NoError) =>
          /\ trail = <<"handleSendOtp", "getUserByEmail:found">>
          /\ pc' = "send:sendOtpEmail"
          /\ \E r \in password_reset_otps' :
                /\ \A q \in password_reset_otps : q.id # r.id
                /\ password_reset_otps' = password_reset_otps \cup {r}
                /\ r.email = call.email /\ r.otp = call.otp
                /\ r.used = FALSE
                /\ r.created_at = now
                /\ r.expires_at = r.created_at + 10 * 60 * 1000
    /\ ~CreateStep =>
          \A r \in password_reset_otps' : \E q \in password_reset_otps : q.id = r.id

C5_RequestCreatesOneRow == [][C5_Step]_vars

\* the row of a request has just been inserted
C5_Witness ==
    /\ trail = <<"handleSendOtp", "getUserByEmail:found", "createPasswordResetOtp:ok">>
    /\ pc = "send:sendOtpEmail"
    /\ \E u \in AppUsers : u.email = call.email
    /\ \E r \in password_reset_otps :
          /\ r.id = call.id /\ r.email = call.email /\ ~r.used
          /\ r.expires_at = now + 10 * 60 * 1000
    /\ Cardinality(password_reset_otps) = 2

\* C6: a reset request for an email without account: getUserByEmail answers
\* not-found, the controller shows "User Not Found" and stays in step email, no
\* OTP row is created and emailjs is not called.
C6_Step ==
    (LookupStep /\ fault' = NoError /\ \A u \in AppUsers : u.email # call.email) =>
        /\ getUserByEmail(AppUsers, call.email, NoError) = Returned(Null)
        /\ Last(trail') = "getUserByEmail:null"
        /\ notice' = NoticeUserNotFound
        /\ pc' = "idle" /\ isLoading' = FALSE
        /\ step = "email" /\ step' = "email"
        /\ password_reset_otps' = password_reset_otps /\ nextId' = nextId
        /\ outbox' = outbox

C6_UnknownEmailAborts == [][C6_Step]_vars

\* a request for an address without account was turned down
C6_Witness ==
    /\ trail = <<"handleSendOtp", "getUserByEmail:null">>
    /\ notice = NoticeUserNotFound
    /\ step = "email" /\ pc = "idle"
    /\ call.email = "missing@x.com"
    /\ AppUsers # {} /\ \A u \in AppUsers : u.email # call.email
    /\ \A r \in password_reset_otps : r.email # call.email
    /\ \A m \in outbox : m.to_email # call.email

\* C7: cleanupExpiredOtps deletes exactly the rows whose expires_at is strictly
\* earlier than the time of the call and changes no other OTP row and no user row.
C7_Step ==
    CleanupExpiredOtpsWith(NoError) =>
        /\ password_reset_otps' = {r \in password_reset_otps : r.expires_at >= now}
        /\ \A r \in password_reset_otps \ password_reset_otps' : r.expires_at < now
        /\ AppUsers' = AppUsers

C7_CleanupDeletesThePast == [][C7_Step]_vars

\* a row has been deleted while a used row expiring at this very instant was kept
C7_Witness ==
    /\ \E id \in 1..(nextId - 1) : \A r \in password_reset_otps : r.id # id
    /\ \E r \in password_reset_otps : r.expires_at = now /\ r.used
    /\ AppUsers # {}

\* C8: step goes from otp to password only in the step in which
\* verifyPasswordResetOtp returns true for the submitted code; a false result or
\* a throw leaves it at otp; the only step changes are email->otp,
\* otp->password and password->email.
C8_Step ==
    /\ (step = "otp" /\ step' = "password") =>
          /\ UpdateStep /\ fault' = NoError
          /\ trail = <<"handleVerifyOtp", "select:found">>
          /\ Last(trail') = "verify:true"
          /\ call.otp # Empty
    /\ (SelectStep /\ pc' = "idle") => (Last(trail') = "verify:false" /\ step' = "otp")
    /\ (UpdateStep /\ fault' # NoError) => (Last(trail') = "verify:threw" /\ step' = "otp")
    /\ step' # step => <<step, step'>> \in {<<"email", "otp">>, <<"otp", "password">>,
                                            <<"password", "email">>}

C8_StepFollowsVerification == [][C8_Step]_vars

\* the mark-as-used request failed for a valid code: the flow is still in otp
C8_Witness ==
    /\ trail = <<"handleVerifyOtp", "select:found", "verify:threw">>
    /\ step = "otp" /\ pc = "idle" /\ fault # NoError
    /\ \E r \in Carrying(password_reset_otps, call.email, call.otp) : Valid(r, now)

\* C9: step goes from email to otp only after the lookup found the account,
\* then createPasswordResetOtp succeeded, then the dispatch succeeded; a failure
\* of any of the three leaves step at email.
C9_Step ==
    /\ (step = "email" /\ step' = "otp") =>
          /\ SendStep /\ fault' = NoError
          /\ trail = <<"handleSendOtp", "getUserByEmail:found", "createPasswordResetOtp:ok">>
          /\ [to_email |-> call.email, otp |-> call.otp] \in outbox'
    /\ (LookupStep /\ (fault' # NoError \/ \A u \in AppUsers : u.email # call.email)) =>
          (pc' = "idle" /\ step' = "email")
    /\ (CreateStep /\ fault' # NoError) => (pc' = "idle" /\ step' = "email")
    /\ (SendStep /\ fault' # NoError) => step' = "email"

C9_OtpStepNeedsAllThree == [][C9_Step]_vars

\* lookup, insert and dispatch succeeded in turn and the flow is in step otp
C9_Witness ==
    /\ trail = <<"handleSendOtp", "getUserByEmail:found", "createPasswordResetOtp:ok",
                 "sendOtpEmail:ok">>
    /\ step = "otp" /\ pc = "idle" /\ fault = NoError
    /\ [to_email |-> call.email, otp |-> call.otp] \in outbox

\* C10: when resetPassword succeeds the four form fields are cleared and step
\* returns to email; when it fails step stays password and the form fields are
\* as they were.
C10_Step ==
    /\ (ResetUpdateStep /\ fault' = NoError) =>
          /\ step = "password" /\ step' = "email"
          /\ formData' = [email |-> "", otp |-> "", newPassword |-> "",
                          confirmPassword |-> ""]
    /\ (\/ ResetUpdateStep /\ fault' # NoError
        \/ pc = "reset:getUserByEmail" /\ pc' = "idle") =>
          /\ step' = "password" /\ formData' = formData
          /\ notice' = NoticeResetFailed

C10_ResetClearsForm == [][C10_Step]_vars

\* a successful reset has cleared a form whose fields were all filled
C10_Witness ==
    /\ trail = <<"handleResetPassword", "getUserByEmail:found", "resetPassword:ok">>
    /\ formData = EmptyForm /\ step = "email" /\ isLoading = FALSE
    /\ notice = NoticeResetDone


\* C11: resetPassword(email, newPassword) for an email with no user row, the
\* store answering, throws the error 'User not found' and issues no update: no
\* row of AppUsers is modified.
C11_Step ==
    \A email \in Emails, newPassword \in NewPasswords :
        (/\ \A u \in AppUsers : u.email # email
         /\ Call_resetPasswordWith(email, newPassword, NoError)) =>
            /\ Len(trail') = 2 /\ trail'[2].threw
            /\ trail'[2].error.message = <<"User", "not", "found">>
            /\ pc' = "idle"
            /\ AppUsers' = AppUsers

C11_ResetOfUnknownEmailFails == [][C11_Step]_vars

\* a reset for an address without row was refused while another account exists
C11_Witness ==
    /\ call.handler = "resetPassword" /\ call.email = "missing@x.com"
    /\ trail = <<"resetPassword", Threw(UserNotFound)>>
    /\ fault = NoError /\ pc = "idle"
    /\ AppUsers # {} /\ \A u \in AppUsers : u.email # call.email


\* the reports handleSendOtp could have shown in this run had getUserByEmail or
\* createPasswordResetOtp failed
DataAccessThrows ==
    {r \in {getUserByEmail(AppUsers, call.email, e) : e \in StoreErrors}
           \cup {createPasswordResetOtp(password_reset_otps, call.email, call.otp,
                                        now, nextId, e).res : e \in StoreErrors} :
        r.threw}
DataAccessReports == {Swal("error", "Error", SendOtpErrorMessage(r.error)) :
                      r \in DataAccessThrows}

\* C12: the report shown when the email dispatch failed is none of the reports
\* shown when getUserByEmail or createPasswordResetOtp fails in the same step.
C12_DispatchReportDistinct ==
    (pc = "idle" /\ Len(trail) = 4 /\ trail[4] = "sendOtpEmail:threw" /\ notice # NoNotice)
        => notice \notin DataAccessReports


\* C13: when the select of verifyPasswordResetOtp found a row and the
\* mark-as-used update fails, the call throws (no boolean is returned), the
\* selected row is still unused, and the controller stays in step otp.
C13_Step ==
    (UpdateStep /\ fault' # NoError) =>
        /\ verifyUpdate(password_reset_otps, call.id, fault').res.threw
        /\ Last(trail') = "verify:threw"
        /\ \A r \in password_reset_otps : r.id = call.id => (~r.used /\ r \in password_reset_otps')
        /\ password_reset_otps' = password_reset_otps
        /\ step = "otp" /\ step' = "otp"
        /\ notice' = NoticeVerifyFailed

C13_FailedMarkPropagates == [][C13_Step]_vars

\* the update failed: the selected row is in the table, unused, and the form in otp
C13_Witness ==
    /\ trail = <<"handleVerifyOtp", "select:found", "verify:threw">>
    /\ notice = NoticeVerifyFailed /\ step = "otp" /\ isLoading = FALSE
    /\ \E r \in password_reset_otps :
          r.id = call.id /\ r.email = call.email /\ r.otp = call.otp /\ ~r.used


\* C14: a submission that fails the local checks (empty email in step email,
\* empty code in step otp, an empty or mismatched password pair in step
\* password) starts no request and leaves step, form fields, busy flag,
\* both tables and the outbox as they were.
C14_Step ==
    (\/ formData.email = "" /\ handleSendOtp
     \/ formData.otp = "" /\ handleVerifyOtp
     \/ /\ (\/ formData.newPassword = ""
            \/ formData.confirmPassword = ""
            \/ formData.newPassword # formData.confirmPassword)
        /\ handleResetPassword) =>
        /\ pc = "idle" /\ pc' = "idle"
        /\ step' = step /\ formData' = formData
        /\ isLoading = FALSE /\ isLoading' = FALSE
        /\ AppUsers' = AppUsers /\ password_reset_otps' = password_reset_otps
        /\ nextId' = nextId /\ outbox' = outbox
        /\ notice' \in {NoticeMissingEmail, NoticeMissingOtp, NoticeMissingFields,
                        NoticeMismatch}

C14_InvalidSubmissionDoesNothing == [][C14_Step]_vars

\* a mismatched password pair was submitted and turned down
C14_Witness ==
    /\ trail = <<"handleResetPassword", "invalid">>
    /\ notice = NoticeMismatch
    /\ step = "password" /\ pc = "idle" /\ isLoading = FALSE
    /\ formData.newPassword # "" /\ formData.confirmPassword # ""
    /\ formData.newPassword # formData.confirmPassword


\* the steps of one direct verifyPasswordResetOtp call
ApiSelectFound == pc = "idle" /\ pc' = "verifyPasswordResetOtp:update"
ApiUpdateStep  == pc = "verifyPasswordResetOtp:update" /\ pc' = "idle"

\* C15: with several unused, unexpired rows carrying the same email and code, a
\* verifyPasswordResetOtp call selects one of latest created_at among them; its
\* update, when the store applies it, marks that row used and changes no other row.
C15_Step ==
    /\ ApiSelectFound =>
          \E r \in Carrying(password_reset_otps, call'.email, call'.otp) :
              /\ r.id = call'.id /\ Valid(r, now)
              /\ \A q \in Carrying(password_reset_otps, call'.email, call'.otp) :
                    Valid(q, now) => q.created_at <= r.created_at
    /\ (ApiUpdateStep /\ fault' = NoError) =>
          /\ trail' = <<"verifyPasswordResetOtp", Returned(TRUE)>>
          /\ \A r \in password_reset_otps :
                IF r.id = call.id
                THEN [r EXCEPT !.used = TRUE] \in password_reset_otps'
                ELSE r \in password_reset_otps'
          /\ Cardinality(password_reset_otps') = Cardinality(password_reset_otps)
          /\ \A r \in password_reset_otps' : r.used => \/ r \in password_reset_otps
                                                       \/ r.id = call.id

C15_NewestRowIsTaken == [][C15_Step]_vars

\* the call marked the newer of two valid rows with one code; the older is untouched
C15_Witness ==
    /\ trail = <<"verifyPasswordResetOtp", Returned(TRUE)>>
    /\ \E r, q \in Carrying(password_reset_otps, call.email, call.otp) :
          /\ r.id = call.id /\ r.used
          /\ Valid(q, now) /\ q.created_at < r.created_at


\* C16: no OTP row is the ground of a true result for both flow instances:
\* at most one verifyPasswordResetOtp call returns true on the strength of a
\* row, also when the selects and updates of two instances interleave.
C16_OneAcceptancePerRow ==
    ~(/\ Len(trail) = 3 /\ trail[3] = "verify:true"
      /\ peer.pc = "idle" /\ peer.res = Returned(TRUE)
      /\ peer.id = call.id)


\* C17: resetPassword is called only with the email verifyPasswordResetOtp
\* returned true for earlier in the same pass: step password is entered only by
\* a successful verification of the form's email, the email field does not
\* change while step is otp or password, and handleResetPassword passes that
\* field, changing no other account.
C17_Step ==
    /\ (step \in {"otp", "password"} /\ step' \in {"otp", "password"}) =>
          formData'.email = formData.email
    /\ (step # "password" /\ step' = "password") =>
          /\ UpdateStep /\ fault' = NoError
          /\ trail = <<"handleVerifyOtp", "select:found">>
          /\ call.email = formData.email
    /\ (pc = "idle" /\ pc' = "reset:getUserByEmail") =>
          (step = "password" /\ call'.email = formData.email)
    /\ pc \in {"reset:getUserByEmail", "reset:update"} =>
          /\ call.email = formData.email
          /\ \A u \in AppUsers : u.email # call.email => u \in AppUsers'

C17_ResetOnlyForVerifiedEmail == [][C17_Step]_vars

\* resetPassword is in flight for the address whose code was accepted
C17_Witness ==
    /\ pc = "reset:update" /\ step = "password"
    /\ call.email = formData.email /\ call.email # ""
    /\ \E r \in password_reset_otps : r.email = call.email /\ r.used


\* C18: in one flow instance a handler run starts only while the busy flag is
\* false and sets it; while a run's chain of requests is in flight no other run
\* starts (the chain goes on in the same handler); every way a run ends, the
\* flag is false again; so the flag is true exactly while a chain is in flight.
C18_Step ==
    /\ (pc = "idle" /\ pc' # "idle") =>
          (~isLoading /\ isLoading' /\ Len(trail') = 1 /\ call'.handler = trail'[1])
    /\ (pc # "idle" /\ pc' # pc) =>
          /\ call'.handler = call.handler
          /\ Len(trail') = Len(trail) + 1
          /\ SubSeq(trail', 1, Len(trail)) = trail
    /\ pc # "idle" => (trail' = trail \/ pc' # pc)
    /\ (pc # "idle" /\ pc' = "idle") => ~isLoading'
    /\ isLoading' <=> pc' # "idle"

C18_OneChainAndFlagReleased == [][C18_Step]_vars

\* a run that ended in a thrown error has released the flag
C18_Witness ==
    /\ Len(trail) = 2 /\ trail[2] = "getUserByEmail:threw"
    /\ call.handler = "handleSendOtp"
    /\ fault # NoError /\ notice.title = "Error"
    /\ pc = "idle" /\ isLoading = FALSE


\* C19: in any sequence of data-access operations, a row of
\* password_reset_otps keeps its email, otp and expires_at, its used flag goes
\* from false to true at most and never back, and the row leaves the table only
\* in a cleanupExpiredOtps step taken after its expires_at.
C19_Step ==
    \A r \in password_reset_otps :
        \/ \E q \in password_reset_otps' :
              /\ q.id = r.id
              /\ q.email = r.email /\ q.otp = r.otp /\ q.expires_at = r.expires_at
              /\ r.used => q.used
              /\ \A p \in password_reset_otps' : p.id = r.id => p = q
        \/ /\ \A q \in password_reset_otps' : q.id # r.id
           /\ CleanupExpiredOtpsWith(NoError)
           /\ r.expires_at < now

C19_RowLifecycle == [][C19_Step]_vars

\* one row has been marked used and is still in the table, another has been deleted
C19_Witness ==
    /\ \E r \in password_reset_otps : r.used /\ r.expires_at >= now
    /\ \E id \in 1..(nextId - 1) : \A r \in password_reset_otps : r.id # id
    /\ nextId = MaxOtps + 1


\* the classes of failure, told by the error the store or emailjs answered with
PermissionFailure(e) ==
    \/ e.code = "42501"
    \/ includes(e.message, <<"permission">>)
    \/ includes(e.message, <<"RLS">>)
MissingTableFailure(e) == e.code = "42P01"
GenericText(text) == Len(text) >= 4 /\ SubSeq(text, 1, 3) = <<"Failed", "to", "send">>

\* a run of handleSendOtp ends in its catch block
SendFailureStep ==
    /\ pc \in {"send:getUserByEmail", "send:createPasswordResetOtp", "send:sendOtpEmail"}
    /\ pc' = "idle"
    /\ fault' # NoError

\* C20: every failure in step email shows the permission message when it is a
\* permission or policy rejection (code 42501, or a message containing
\* 'permission' or 'RLS'), the missing-table message when the table is missing,
\* and a 'Failed to send OTP' message otherwise.
C20_Step ==
    SendFailureStep =>
        /\ notice'.title = "Error"
        /\ IF PermissionFailure(fault') THEN notice'.text = PermissionMessage
           ELSE IF MissingTableFailure(fault') THEN notice'.text = TableMessage
           ELSE GenericText(notice'.text)

C20_FailureClassesDistinguished == [][C20_Step]_vars

====
